---- MODULE Spec2Model ----
(***************************************************************************)
(* Session / handoff continuity layer of chitty-ultimate-worker:           *)
(* SessionService (session service source) and MobileBridgeService         *)
(* (src/mobile-bridge.js) over their storage abstraction: the remote       *)
(* key/value binding env.CHITTYROUTER_KV and a per-instance memoryStore.   *)
(*                                                                         *)
(* Every request is handled by an async method; each `await` is a point    *)
(* where another request may run, so a handler is a sequence of atomic     *)
(* steps (one action per step), and two request slots run concurrently.    *)
(***************************************************************************)
EXTENDS Integers, Sequences, FiniteSets, TLC

VARIABLES
    kvBound,      \* this.kv is truthy: env.CHITTYROUTER_KV is configured
    kv,           \* contents of the remote key/value store (key -> stored text)
    memoryStore,  \* memoryStore of each service instance (service -> key -> text)
    now,          \* the clock read by Date.now() / new Date()
    task,         \* the request each slot is handling and the handler's position
    last,         \* the request the step just taken answered, with its response
                  \* (IdleTask when the step answered none)
    nreq,         \* number of requests accepted so far
    nfault,       \* number of remote failures injected so far
    written,      \* history: every key a put has stored, in either backend
    acked,        \* history: <<key, field>> for each field of a patch whose update
                  \* was answered 200
    direct        \* the latest get/set called directly on a service's storage
                  \* methods, with its result, and the values such calls have put

vars == <<kvBound, kv, memoryStore, now, task, last, nreq, nfault, written, acked,
          direct>>

----------------------------------------------------------------------------
(* Bounds of the model *)

MaxTime == 1      \* the clock runs 0..MaxTime
MaxReqs == 3      \* requests accepted in one behaviour
MaxFaults == 1    \* remote failures in one behaviour
NumSlots == 2     \* requests in flight at once

Slots == 1..NumSlots
Rand == {"k3f", "z9q"}   \* outcomes of Math.random().toString(36).substr(...)

----------------------------------------------------------------------------
(* Values: texts held by the stores, JSON objects, responses *)

SERVICE == "chitty-ultimate-worker"

NULL == [kind |-> "null"]                 \* JavaScript null (a store miss)
EmptyText == [kind |-> "empty"]           \* the empty string ""
NoObj == <<>>                             \* the object {} (no fields)

\* JSON.stringify(obj): fields whose value is undefined are never in obj here
\* (they are left out when the object is built), so the text carries obj.
Stringify(obj) == [kind |-> "json", obj |-> obj]
\* JSON.parse(text): the object of a text written by Stringify; JSON.parse(null)
\* is null (it is never called on "": every caller tests the text first)
Parse(text) == IF text.kind = "json" THEN text.obj ELSE NULL

\* a test that takes only "" for missing (value !== ""), so that null passes
NotEmptyText(v) == v.kind # "empty"

\* !value is false: a non-empty string. null and "" are falsy.
Truthy(v) == v.kind = "json"

\* { ...a, ...b }, Object.assign(a, b): b's fields overwrite, the others stay
Assign(a, b) ==
    [f \in (DOMAIN a) \cup (DOMAIN b) |-> IF f \in DOMAIN b THEN b[f] ELSE a[f]]

\* a write that leaves the store holding nothing but the key written
PutAlone(store, key, value) == [k \in {key} |-> value]

\* the fields fs of obj that are defined ({ f } = obj picks undefined otherwise)
Pick(obj, fs) == [f \in (DOMAIN obj) \cap fs |-> obj[f]]

Put(store, key, value) ==
    [k \in (DOMAIN store) \cup {key} |-> IF k = key THEN value ELSE store[k]]

Response(status, body) == [status |-> status, body |-> body]
NoResponse == Response(0, NoObj)

----------------------------------------------------------------------------
(* Requests *)

NoBody == [kind |-> "none", obj |-> NoObj]          \* no body is read
Malformed == [kind |-> "malformed", obj |-> NoObj]  \* request.json() throws
NullBody == [kind |-> "null", obj |-> NoObj]        \* the JSON text null
Obj(o) == [kind |-> "object", obj |-> o]            \* a JSON object

IsObject(body) == body.kind = "object"

\* Bodies sent to POST /session/create (caller timestamps are 9: not a clock value)
SessionBodies ==
    { Malformed, NullBody,
      Obj([a |-> 1, b |-> 2, platform |-> "mobile"]), Obj([b |-> 3, c |-> 4]),
      Obj([id |-> "custom", platform |-> "", status |-> "closed",
           createdAt |-> 9, lastActivity |-> 9]) }

\* Bodies sent to POST /session/{id}
PatchBodies ==
    { Malformed, NullBody, Obj([b |-> 3, c |-> 4]),
      Obj([id |-> "custom", platform |-> "", status |-> "closed",
           createdAt |-> 9, lastActivity |-> 9]) }

Methods == {"GET", "POST", "DELETE"}
Words == {"create", "status", "sync", "handoff"}      \* path words of the routes

\* generateSessionId(): `chitty-session-${Date.now()}-${random}`
GenerateSessionId(t, r) == "chitty-session-" \o ToString(t) \o "-" \o r
\* generateId(): `mobile-${Date.now()}-${random}`
GenerateId(t, r) == "mobile-" \o ToString(t) \o "-" \o r

GeneratedIds ==
    {GenerateSessionId(t, r) : t \in 0..MaxTime, r \in Rand}
        \cup {GenerateId(t, r) : t \in 0..MaxTime, r \in Rand}

Namespaces == {"session", "handoff", "mobile-handoff", "quickstart"}
\* `${namespace}:${id}`
Key(ns, id) == ns \o ":" \o id
KeysOf(id) == {Key(ns, id) : ns \in Namespaces}

\* ids a client has reason to ask for: the ones some put has stored a record under
KnownIds == {i \in GeneratedIds : KeysOf(i) \cap written # {}}
\* "handoff" also stands for an id under which nothing was ever stored
PathIds == {"handoff"} \cup KnownIds

----------------------------------------------------------------------------
(* Storage abstraction: get(key) / set(key, value) of both services *)

\* this.memoryStore.get(key) || null
MemGet(mem, key) ==
    IF key \in DOMAIN mem /\ Truthy(mem[key]) THEN mem[key] ELSE NULL

\* await this.kv.get(key), when it does not throw
KvGet(key) == IF key \in DOMAIN kv THEN kv[key] ELSE NULL

\* the backend get(key) of service svc reads
Store(svc) == IF kvBound THEN kv ELSE memoryStore[svc]

\* what a call leaves behind when it throws instead of returning
Thrown == [kind |-> "thrown"]

\* whether the next remote call may be made to throw
MayFail == kvBound /\ nfault < MaxFaults
Outcomes == IF MayFail THEN {"ok", "throws"} ELSE {"ok"}

\* a get that falls back on memoryStore when the remote store misses or fails
GetWithFallback(svc, key, outcome) ==
    IF kvBound /\ outcome = "ok" /\ KvGet(key) # NULL THEN KvGet(key)
    ELSE MemGet(memoryStore[svc], key)

\* get(key): the remote store alone when there is one (its error propagates),
\* memoryStore alone when there is none
Get(svc, key, outcome) ==
    IF kvBound
    THEN IF outcome = "throws" THEN Thrown ELSE KvGet(key)
    ELSE MemGet(memoryStore[svc], key)

----------------------------------------------------------------------------
(* SessionService *)

\* a chain of route tests that takes every method but GET for an update
SessionRouteNotGet(method, p1) ==
    IF p1 = "create" /\ method = "POST" THEN "createSession"
    ELSE IF p1 = "status" /\ method = "GET" THEN "getStatus"
    ELSE IF p1 # "" /\ method = "GET" THEN "getSession"
    ELSE IF p1 # "" THEN "updateSession"
    ELSE "listSessions"

\* handleRequest: the chain of route tests, in the order they are written
SessionRoute(method, p1) ==
    IF p1 = "create" /\ method = "POST" THEN "createSession"
    ELSE IF p1 = "status" /\ method = "GET" THEN "getStatus"
    ELSE IF p1 # "" /\ method = "GET" THEN "getSession"
    ELSE IF p1 # "" /\ method = "POST" THEN "updateSession"
    ELSE IF p1 = "sync" /\ method = "POST" THEN "syncSession"
    ELSE IF p1 = "handoff" /\ method = "POST" THEN "createHandoff"
    ELSE "listSessions"

\* a catch block that answers 500 without naming the service
SessionErrorBare(message) ==
    Response(500, [error |-> "Session management error", message |-> message])

\* the catch block of handleRequest
SessionError(message) ==
    Response(500, [error |-> "Session management error", message |-> message,
                   service |-> SERVICE])

SessionNotFound(sessionId) ==
    Response(404, [error |-> "Session not found", sessionId |-> sessionId])

\* body.platform || "claude-code"
PlatformOf(body) ==
    IF "platform" \in DOMAIN body /\ body.platform # "" THEN body.platform
    ELSE "claude-code"

\* createSession: { id, ...body, createdAt, lastActivity, platform, status }
NewSession(sessionId, body, t) ==
    Assign(Assign([id |-> sessionId], body),
           [createdAt |-> t, lastActivity |-> t, platform |-> PlatformOf(body),
            status |-> "active"])

CreatedResponse(sessionId, session) ==
    Response(200, [success |-> TRUE, sessionId |-> sessionId, session |-> session,
                   service |-> SERVICE])

\* an update that replaces the record by the body instead of merging into it
MergeReplacing(session, body, t) == Assign(body, [lastActivity |-> t])

\* updateSession: Object.assign(session, body, { lastActivity })
MergeSession(session, body, t) ==
    Assign(Assign(session, body), [lastActivity |-> t])

\* a read that stamps its answer with the time of the read
SessionResponseStamped(session) ==
    Response(200, [success |-> TRUE, session |-> session, service |-> SERVICE,
                   timestamp |-> now])

\* getSession: { success, session, service }
SessionResponse(session) ==
    Response(200, [success |-> TRUE, session |-> session, service |-> SERVICE])

----------------------------------------------------------------------------
(* Request slots *)

IdleTask ==
    [pc |-> "idle", svc |-> "", op |-> "", method |-> "", p1 |-> "", p2 |-> "",
     body |-> NoBody, key |-> "", probe |-> 0, read |-> NULL, value |-> NULL,
     reply |-> NoResponse, resp |-> NoResponse]

\* a request handed to handleRequest of service svc, routed to handler op
NewTask(svc, op, method, p1, p2, body) ==
    [IdleTask EXCEPT !.svc = svc, !.op = op, !.method = method, !.p1 = p1,
                     !.p2 = p2, !.body = body]

\* A new request takes the first slot that handles none (slots are anonymous).
Vacant(p) == task[p].pc = "idle"
Free(p) == Vacant(p) /\ (\A q \in Slots : q < p => ~Vacant(q)) /\ nreq < MaxReqs

\* the catch block of the service's handleRequest
ErrorOf(svc, message) ==
    Response(500, [error |-> IF svc = "session" THEN "Session management error"
                              ELSE "Mobile bridge error",
                   message |-> message, service |-> SERVICE])

\* a set that writes memoryStore before it awaits the remote put
SetMemFirst(mem, key, value, outcome) == Put(mem, key, value)

\* set(key, value): what memoryStore holds afterwards. The remote put is awaited
\* first, so when it throws memoryStore.set is never reached.
SetMem(mem, key, value, outcome) ==
    IF outcome = "ok" THEN Put(mem, key, value) ELSE mem

\* a remote put that keeps the record already stored under the key (write-once)
SetKvIfAbsent(store, key, value, outcome) ==
    IF kvBound /\ outcome = "ok" /\ key \notin DOMAIN store
    THEN Put(store, key, value) ELSE store

\* set(key, value): what the remote store holds afterwards
SetKv(store, key, value, outcome) ==
    IF kvBound /\ outcome = "ok" THEN Put(store, key, value) ELSE store

\* what is kept of an answered request: the request and its response
Answered(t, resp) ==
    [IdleTask EXCEPT !.pc = "done", !.svc = t.svc, !.op = t.op,
                     !.method = t.method, !.p1 = t.p1, !.p2 = t.p2,
                     !.body = t.body, !.resp = resp]

\* the fields updates have been answered 200 for, per key, since the record
\* under that key was created
Acknowledge(t, resp) ==
    IF t.op = "updateSession" /\ resp.status = 200
    THEN acked \cup {<<t.key, f>> : f \in DOMAIN t.body.obj}
    ELSE IF t.op = "createSession" /\ resp.status = 200
    THEN {a \in acked : a[1] # t.key}
    ELSE acked

\* The handler returns resp without touching a store.
Return(p, t, resp) ==
    /\ task' = [task EXCEPT ![p] = IdleTask]
    /\ last' = Answered(t, resp)
    /\ UNCHANGED <<kv, memoryStore, written, acked>>

\* The handler goes on to its next await, at position pc.
Await(p, t, pc) ==
    /\ task' = [task EXCEPT ![p] = [t EXCEPT !.pc = pc]]
    /\ last' = IdleTask
    /\ UNCHANGED <<kv, memoryStore, written, acked>>

\* await this.set(key, value), then return reply. Without a remote store the
\* write to memoryStore happens in the same step; with one, the handler waits
\* for the remote put (action KvPut).
Set(p, t, key, value, reply) ==
    IF kvBound
    THEN /\ task' = [task EXCEPT ![p] = [t EXCEPT !.pc = "kvPut", !.key = key,
                                           !.value = value, !.reply = reply]]
         /\ last' = IdleTask
    /\ UNCHANGED <<kv, memoryStore, written, acked>>
    ELSE /\ memoryStore' = [memoryStore EXCEPT
                              ![t.svc] = SetMem(@, key, value, "ok")]
         /\ written' = written \cup {key}
         /\ task' = [task EXCEPT ![p] = IdleTask]
         /\ last' = Answered(t, reply)
         /\ acked' = Acknowledge([t EXCEPT !.key = key], reply)
         /\ UNCHANGED kv

\* The remote put of a waiting set() completes or throws.
KvPut(p) ==
    /\ task[p].pc = "kvPut"
    /\ \E o \in Outcomes :
        LET t == task[p] IN
        /\ kv' = SetKv(kv, t.key, t.value, o)
        /\ memoryStore' = [memoryStore EXCEPT
                             ![t.svc] = SetMem(@, t.key, t.value, o)]
        /\ written' = IF o = "ok" THEN written \cup {t.key} ELSE written
        /\ nfault' = IF o = "ok" THEN nfault ELSE nfault + 1
        /\ task' = [task EXCEPT ![p] = IdleTask]
        /\ last' = Answered(t, IF o = "ok" THEN t.reply
                                ELSE ErrorOf(t.svc, "KVError"))
        /\ acked' = IF o = "ok" THEN Acknowledge(t, t.reply) ELSE acked
    /\ UNCHANGED <<kvBound, now, nreq, direct>>

\* Bodies a client sends to POST /session/handoff: a handoff of a stored session
HandoffRequests ==
    {Obj([sessionId |-> i, targetApp |-> "claude-mobile"]) : i \in KnownIds}

\* the second path segment of a request to /session: none, a route word, an id
Segs == {""} \cup Words \cup PathIds
\* the second path segment of a request to /mobile
MobileSegs == {"", "quick-start", "handoff", "continue", "status", "unknown"}

----------------------------------------------------------------------------
(* SessionService handlers, as handleRequest reaches them *)

\* POST /session/create: createSession
CreateSession(p) ==
    /\ Free(p)
    /\ \E method \in Methods, p1 \in Segs, body \in SessionBodies, r \in Rand :
        LET t == NewTask("session", "createSession", method, p1, "", body)
            sessionId == GenerateSessionId(now, r)
            session == NewSession(sessionId, body.obj, now)
        IN
        /\ SessionRoute(method, p1) = "createSession"
        /\ IF body = Malformed
           THEN Return(p, t, SessionError("SyntaxError"))      \* request.json()
           ELSE IF body = NullBody
           THEN Return(p, t, SessionError("TypeError"))        \* body.platform
           ELSE Set(p, t, Key("session", sessionId), Stringify(session),
                    CreatedResponse(sessionId, session))
    /\ nreq' = nreq + 1
    /\ UNCHANGED <<kvBound, now, nfault, direct>>

\* GET /session/status: getStatus
GetStatus(p) ==
    /\ Free(p)
    /\ \E method \in Methods, p1 \in Segs :
        /\ SessionRoute(method, p1) = "getStatus"
        /\ Return(p, NewTask("session", "getStatus", method, p1, "", NoBody),
                  Response(200, [service |-> "ChittyChat Session Management",
                                 status |-> "operational", worker |-> SERVICE,
                                 timestamp |-> now]))
    /\ nreq' = nreq + 1
    /\ UNCHANGED <<kvBound, now, nfault, direct>>

\* every request no route test takes: listSessions
ListSessions(p) ==
    /\ Free(p)
    /\ \E method \in Methods, p1 \in Segs :
        /\ SessionRoute(method, p1) = "listSessions"
        /\ Return(p, NewTask("session", "listSessions", method, p1, "", NoBody),
                  Response(200, [success |-> TRUE, sessions |-> <<>>,
                                 message |-> "Session listing not fully implemented",
                                 service |-> SERVICE]))
    /\ nreq' = nreq + 1
    /\ UNCHANGED <<kvBound, now, nfault, direct>>

\* GET /session/{id}: getSession up to its await this.get(...)
GetSession(p) ==
    /\ Free(p)
    /\ \E method \in Methods, p1 \in Segs :
        /\ SessionRoute(method, p1) = "getSession"
        /\ Await(p, [NewTask("session", "getSession", method, p1, "", NoBody)
                         EXCEPT !.key = Key("session", p1)], "getSession")
    /\ nreq' = nreq + 1
    /\ UNCHANGED <<kvBound, now, nfault, direct>>

\* getSession after the get: 404 when nothing is stored, the parsed record otherwise
GetSessionRead(p) ==
    /\ task[p].pc = "getSession"
    /\ \E o \in Outcomes :
        LET t == task[p]
            sessionData == Get(t.svc, t.key, o)
        IN
        /\ nfault' = IF o = "ok" THEN nfault ELSE nfault + 1
        /\ IF sessionData = Thrown THEN Return(p, t, SessionError("KVError"))
           ELSE IF ~Truthy(sessionData)
           THEN Return(p, [t EXCEPT !.read = sessionData], SessionNotFound(t.p1))
           ELSE Return(p, [t EXCEPT !.read = sessionData],
                       SessionResponse(Parse(sessionData)))
    /\ UNCHANGED <<kvBound, now, nreq, direct>>

\* POST /session/{id}: updateSession up to its await this.get(...)
UpdateSession(p) ==
    /\ Free(p)
    /\ \E method \in Methods, p1 \in Segs :
       \E body \in PatchBodies \cup (IF p1 = "handoff" THEN HandoffRequests ELSE {}) :
        LET t == NewTask("session", "updateSession", method, p1, "", body) IN
        /\ SessionRoute(method, p1) = "updateSession"
        /\ IF body = Malformed
           THEN Return(p, t, SessionError("SyntaxError"))      \* request.json()
           ELSE Await(p, [t EXCEPT !.key = Key("session", p1)], "updateSession")
    /\ nreq' = nreq + 1
    /\ UNCHANGED <<kvBound, now, nfault, direct>>

\* an update that creates the record when nothing is stored (an upsert)
UpdateSessionUpsert(p) ==
    /\ task[p].pc = "updateSession"
    /\ \E o \in Outcomes :
        LET t == task[p]
            existingData == Get(t.svc, t.key, o)
        IN
        /\ nfault' = IF o = "ok" THEN nfault ELSE nfault + 1
        /\ IF existingData = Thrown THEN Return(p, t, SessionError("KVError"))
           ELSE IF ~Truthy(existingData)
           THEN Await(p, [t EXCEPT !.read = Stringify([id |-> t.p1])], "updateMerge")
           ELSE Await(p, [t EXCEPT !.read = existingData], "updateMerge")
    /\ UNCHANGED <<kvBound, now, nreq, direct>>

\* updateSession after the get: 404 when nothing is stored
UpdateSessionRead(p) ==
    /\ task[p].pc = "updateSession"
    /\ \E o \in Outcomes :
        LET t == task[p]
            existingData == Get(t.svc, t.key, o)
        IN
        /\ nfault' = IF o = "ok" THEN nfault ELSE nfault + 1
        /\ IF existingData = Thrown THEN Return(p, t, SessionError("KVError"))
           ELSE IF ~Truthy(existingData)
           THEN Return(p, [t EXCEPT !.read = existingData], SessionNotFound(t.p1))
           ELSE Await(p, [t EXCEPT !.read = existingData], "updateMerge")
    /\ UNCHANGED <<kvBound, now, nreq, direct>>

\* an update that files the merged record under the id the record carries
UpdateSessionMergeUnderId(p) ==
    /\ task[p].pc = "updateMerge"
    /\ LET t == task[p]
           session == MergeSession(Parse(t.read), t.body.obj, now)
       IN Set(p, t, Key("session", session.id), Stringify(session),
              SessionResponse(session))
    /\ UNCHANGED <<kvBound, now, nreq, nfault, direct>>

\* updateSession: merge the body into the record read, stamp it, write it back
UpdateSessionMerge(p) ==
    /\ task[p].pc = "updateMerge"
    /\ LET t == task[p]
           session == MergeSession(Parse(t.read), t.body.obj, now)
       IN Set(p, t, t.key, Stringify(session), SessionResponse(session))
    /\ UNCHANGED <<kvBound, now, nreq, nfault, direct>>

----------------------------------------------------------------------------
(* MobileBridgeService *)

\* handleRequest: the chain of route tests, in the order they are written
MobileRoute(method, p1, p2) ==
    IF p1 = "quick-start" /\ method = "POST" THEN "quickStart"
    ELSE IF p1 = "handoff" /\ method = "POST" THEN "createMobileHandoff"
    ELSE IF p1 = "continue" /\ p2 # "" /\ method = "GET"
    THEN "continueMobileSession"
    ELSE IF p1 = "status" /\ method = "GET" THEN "getMobileStatus"
    ELSE "getMobileInfo"

MobileError(message) ==
    Response(500, [error |-> "Mobile bridge error", message |-> message,
                   service |-> SERVICE])

\* bodies sent to POST /mobile/handoff
HandoffBodies ==
    { Malformed, NullBody, Obj(NoObj),
      Obj([sessionId |-> "custom", targetApp |-> "chatgpt",
           mobileContext |-> [task |-> "X", progress |-> "50%"]]),
      Obj([mobileContext |-> [nextSteps |-> "ship", keyPoints |-> <<"mine">>]]) }

\* bodies sent to POST /mobile/quick-start: no hint, or a hint at a stored record
QuickStartBodies ==
    { Malformed, NullBody, Obj([platform |-> "ios"]) }
        \cup {Obj([sessionHint |-> i]) : i \in KnownIds}

\* a key-point extraction that lists progress before the task
ExtractKeyPointsProgressFirst(has, context) ==
    IF ~has THEN <<>>
    ELSE LET Point(f, label) ==
                 IF f \in DOMAIN context /\ context[f] # ""
                 THEN <<label \o context[f]>> ELSE <<>>
         IN Point("progress", "Progress: ") \o Point("task", "Task: ")
                \o Point("nextSteps", "Next: ")

\* extractKeyPoints(context): context is an object, or undefined (has = FALSE)
ExtractKeyPoints(has, context) ==
    IF ~has THEN <<>>
    ELSE LET Point(f, label) ==
                 IF f \in DOMAIN context /\ context[f] # ""
                 THEN <<label \o context[f]>> ELSE <<>>
             points == Point("task", "Task: ") \o Point("progress", "Progress: ")
                          \o Point("nextSteps", "Next: ")
         IN SubSeq(points, 1, IF Len(points) < 3 THEN Len(points) ELSE 3)

\* suggestNextActions(context)
SuggestNextActions(has) ==
    IF ~has THEN <<"Continue development", "Review status", "Update progress">>
    ELSE <<"Continue current task", "Review progress", "Quick update",
           "Sync changes">>

\* createMobileHandoff: the record built from the body
NewMobileHandoff(handoffId, body, t) ==
    LET has == "mobileContext" \in DOMAIN body
        mobileContext == IF has THEN body.mobileContext ELSE NoObj
    IN Assign(Assign([id |-> handoffId], Pick(body, {"sessionId"})),
              [targetApp |-> IF "targetApp" \in DOMAIN body /\ body.targetApp # ""
                             THEN body.targetApp ELSE "claude-mobile",
               mobileContext |->
                   Assign([simplified |-> TRUE,
                           keyPoints |-> ExtractKeyPoints(has, mobileContext),
                           nextActions |-> SuggestNextActions(has)],
                          mobileContext),
               createdAt |-> t, platform |-> "mobile", status |-> "pending"])

\* generateMobileUrl(handoffId)
GenerateMobileUrl(handoffId) == "https://chitty.cc/mobile/continue/" \o handoffId

\* getMobileRecommendations(contextData)
GetMobileRecommendations(contextData) ==
    IF contextData = NULL
    THEN <<"Start a new session", "Import from desktop Claude",
           "Quick task creation">>
    ELSE <<"Continue where you left off", "Review recent context",
           "Quick status update", "Mobile-optimized summary">>

\* quickStart: the record built once the hint has been looked up
NewQuickStart(quickStartId, body, contextData, t) ==
    Assign(Assign([id |-> quickStartId], Pick(body, {"sessionHint"})),
           [platform |-> IF "platform" \in DOMAIN body /\ body.platform # ""
                         THEN body.platform ELSE "mobile",
            contextData |-> contextData, createdAt |-> t, status |-> "ready"])

\* createMobileSummary(session)
CreateMobileSummary(session) ==
    (IF "platform" \in DOMAIN session /\ session.platform # ""
     THEN session.platform ELSE "Session")
        \o " started at "
        \o (IF "createdAt" \in DOMAIN session THEN ToString(session.createdAt)
            ELSE "Invalid Date")

\* simplifyContext(session)
SimplifyContext(session) ==
    Pick(session, {"id", "platform", "status", "lastActivity"})

\* a continue that looks for a handoff before it looks for a session
ContinueProbesHandoffFirst == <<"mobile-handoff", "session", "quickstart">>

\* continueMobileSession: the namespaces probed, in order
ContinueProbes == <<"session", "mobile-handoff", "quickstart">>
\* quickStart: the namespaces probed for the hint, in order
QuickStartProbes == <<"session", "handoff">>

ContinueResponse(session) ==
    Response(200, [success |-> TRUE, session |-> session,
                   mobileOptimized |->
                       [summary |-> CreateMobileSummary(session),
                        quickActions |-> <<"Continue", "Status", "Sync", "Handoff">>,
                        context |-> SimplifyContext(session)],
                   service |-> SERVICE])

\* POST /mobile/handoff: createMobileHandoff
CreateMobileHandoff(p) ==
    /\ Free(p)
    /\ \E method \in Methods, p1 \in MobileSegs, body \in HandoffBodies, r \in Rand :
        LET t == NewTask("mobile", "createMobileHandoff", method, p1, "", body)
            handoffId == GenerateId(now, r)
            handoff == NewMobileHandoff(handoffId, body.obj, now)
        IN
        /\ MobileRoute(method, p1, "") = "createMobileHandoff"
        /\ IF body = Malformed
           THEN Return(p, t, MobileError("SyntaxError"))       \* request.json()
           ELSE IF body = NullBody
           THEN Return(p, t, MobileError("TypeError"))         \* destructuring
           ELSE Set(p, t, Key("mobile-handoff", handoffId), Stringify(handoff),
                    Response(200, [success |-> TRUE, handoffId |-> handoffId,
                                   handoff |-> handoff,
                                   mobileUrl |-> GenerateMobileUrl(handoffId),
                                   service |-> SERVICE]))
    /\ nreq' = nreq + 1
    /\ UNCHANGED <<kvBound, now, nfault, direct>>

\* GET /mobile/continue/{id}: continueMobileSession up to its first get
ContinueMobileSession(p) ==
    /\ Free(p)
    /\ \E method \in Methods, p1 \in MobileSegs, p2 \in PathIds :
        /\ MobileRoute(method, p1, p2) = "continueMobileSession"
        /\ Await(p, [NewTask("mobile", "continueMobileSession", method, p1, p2,
                             NoBody) EXCEPT !.probe = 1], "continue")
    /\ nreq' = nreq + 1
    /\ UNCHANGED <<kvBound, now, nfault, direct>>

\* continueMobileSession: one get of the chain a || b || c returns
ContinueProbe(p) ==
    /\ task[p].pc = "continue"
    /\ \E o \in Outcomes :
        LET t == task[p]
            sessionData == Get(t.svc, Key(ContinueProbes[t.probe], t.p2), o)
        IN
        /\ nfault' = IF o = "ok" THEN nfault ELSE nfault + 1
        /\ IF sessionData = Thrown THEN Return(p, t, MobileError("KVError"))
           ELSE IF Truthy(sessionData)
           THEN Return(p, t, ContinueResponse(Parse(sessionData)))
           ELSE IF t.probe < Len(ContinueProbes)
           THEN Await(p, [t EXCEPT !.probe = t.probe + 1], "continue")
           ELSE Return(p, t, SessionNotFound(t.p2))
    /\ UNCHANGED <<kvBound, now, nreq, direct>>

\* POST /mobile/quick-start: quickStart up to its first get (if there is a hint)
QuickStart(p) ==
    /\ Free(p)
    /\ \E method \in Methods, p1 \in MobileSegs, body \in QuickStartBodies :
        LET t == NewTask("mobile", "quickStart", method, p1, "", body) IN
        /\ MobileRoute(method, p1, "") = "quickStart"
        /\ IF body = Malformed
           THEN Return(p, t, MobileError("SyntaxError"))       \* request.json()
           ELSE IF body = NullBody
           THEN Return(p, t, MobileError("TypeError"))         \* destructuring
           ELSE IF "sessionHint" \in DOMAIN body.obj /\ body.obj.sessionHint # ""
           THEN Await(p, [t EXCEPT !.probe = 1], "quickStartGet")
           ELSE Await(p, t, "quickStartSet")
    /\ nreq' = nreq + 1
    /\ UNCHANGED <<kvBound, now, nfault, direct>>

\* quickStart: one get of the chain a || b returns
QuickStartProbe(p) ==
    /\ task[p].pc = "quickStartGet"
    /\ \E o \in Outcomes :
        LET t == task[p]
            sessionData ==
                Get(t.svc, Key(QuickStartProbes[t.probe], t.body.obj.sessionHint), o)
        IN
        /\ nfault' = IF o = "ok" THEN nfault ELSE nfault + 1
        /\ IF sessionData = Thrown THEN Return(p, t, MobileError("KVError"))
           ELSE IF Truthy(sessionData)
           THEN Await(p, [t EXCEPT !.read = sessionData], "quickStartSet")
           ELSE IF t.probe < Len(QuickStartProbes)
           THEN Await(p, [t EXCEPT !.probe = t.probe + 1], "quickStartGet")
           ELSE Await(p, t, "quickStartSet")
    /\ UNCHANGED <<kvBound, now, nreq, direct>>

\* quickStart: build the record around what was found and store it
QuickStartSet(p) ==
    /\ task[p].pc = "quickStartSet"
    /\ \E r \in Rand :
        LET t == task[p]
            contextData == IF Truthy(t.read) THEN Parse(t.read) ELSE NULL
            quickStartId == GenerateId(now, r)
            quickStart == NewQuickStart(quickStartId, t.body.obj, contextData, now)
        IN Set(p, t, Key("quickstart", quickStartId), Stringify(quickStart),
               Response(200, [success |-> TRUE, quickStartId |-> quickStartId,
                              contextData |-> contextData,
                              recommendations |->
                                  GetMobileRecommendations(contextData),
                              service |-> SERVICE]))
    /\ UNCHANGED <<kvBound, now, nreq, nfault, direct>>

\* GET /mobile/status: getMobileStatus
GetMobileStatus(p) ==
    /\ Free(p)
    /\ \E method \in Methods, p1 \in MobileSegs :
        /\ MobileRoute(method, p1, "") = "getMobileStatus"
        /\ Return(p, NewTask("mobile", "getMobileStatus", method, p1, "", NoBody),
                  Response(200, [service |-> "ChittyChat Mobile Bridge",
                                 status |-> "operational", worker |-> SERVICE,
                                 timestamp |-> now]))
    /\ nreq' = nreq + 1
    /\ UNCHANGED <<kvBound, now, nfault, direct>>

\* every request no route test takes: getMobileInfo
GetMobileInfo(p) ==
    /\ Free(p)
    /\ \E method \in Methods, p1 \in MobileSegs :
        /\ MobileRoute(method, p1, "") = "getMobileInfo"
        /\ Return(p, NewTask("mobile", "getMobileInfo", method, p1, "", NoBody),
                  Response(200, [service |-> "ChittyChat Mobile Bridge",
                                 message |->
                                     "Cross-platform AI session continuity for mobile",
                                 worker |-> SERVICE, timestamp |-> now]))
    /\ nreq' = nreq + 1
    /\ UNCHANGED <<kvBound, now, nfault, direct>>

----------------------------------------------------------------------------
(* The storage methods called directly (get and set are public methods of
   both services), and the remote store losing a key *)

Services == {"session", "mobile"}
Done == [kind |-> "done"]                 \* set() returned

StorageKeys ==
    {Key("session", "handoff"), Key("mobile-handoff", "handoff"),
     Key("quickstart", "handoff")}
StorageValues ==
    { EmptyText,
      Stringify([id |-> "handoff", status |-> "active", createdAt |-> 0]),
      Stringify([id |-> "handoff", status |-> "pending", createdAt |-> 0]) }

NoCall ==
    [n |-> 0, call |-> "none", svc |-> "", key |-> "", value |-> NULL,
     result |-> NULL, put |-> [svc \in Services |-> <<>>]]

\* await service.set(key, value)
StorageSet(svc) ==
    /\ nreq < MaxReqs
    /\ \E key \in StorageKeys, value \in StorageValues, o \in Outcomes :
        /\ kv' = SetKv(kv, key, value, o)
        /\ memoryStore' = [memoryStore EXCEPT ![svc] = SetMem(@, key, value, o)]
        /\ written' = IF o = "ok" THEN written \cup {key} ELSE written
        /\ nfault' = IF o = "ok" THEN nfault ELSE nfault + 1
        /\ direct' = [n |-> nreq + 1, call |-> "set", svc |-> svc, key |-> key,
                      value |-> value,
                      result |-> IF o = "ok" THEN Done ELSE Thrown,
                      put |-> IF o = "ok"
                              THEN [direct.put EXCEPT ![svc] = Put(@, key, value)]
                              ELSE direct.put]
    /\ nreq' = nreq + 1
    /\ last' = IdleTask
    /\ UNCHANGED <<kvBound, now, task, acked>>

\* await service.get(key)
StorageGet(svc) ==
    /\ nreq < MaxReqs
    /\ \E key \in StorageKeys, o \in Outcomes :
        /\ nfault' = IF o = "ok" THEN nfault ELSE nfault + 1
        /\ direct' = [direct EXCEPT !.n = nreq + 1, !.call = "get", !.svc = svc,
                                    !.key = key, !.value = NULL,
                                    !.result = Get(svc, key, o)]
    /\ nreq' = nreq + 1
    /\ last' = IdleTask
    /\ UNCHANGED <<kvBound, kv, memoryStore, now, task, written, acked>>

\* The remote store no longer holds a key (expiry, eviction, another writer).
KvEvict ==
    /\ kvBound
    /\ \E key \in DOMAIN kv : kv' = [k \in (DOMAIN kv) \ {key} |-> kv[k]]
    /\ last' = IdleTask
    /\ UNCHANGED <<kvBound, memoryStore, now, task, nreq, nfault, written, acked,
                   direct>>

\* the clock advances
Tick ==
    /\ now < MaxTime
    /\ now' = now + 1
    /\ last' = IdleTask
    /\ UNCHANGED <<kvBound, kv, memoryStore, task, nreq, nfault, written, acked,
                   direct>>

----------------------------------------------------------------------------

Init ==
    /\ kvBound \in BOOLEAN
    /\ kv = <<>>
    /\ memoryStore = [svc \in {"session", "mobile"} |-> <<>>]
    /\ now = 0
    /\ task = [p \in Slots |-> IdleTask]
    /\ last = IdleTask
    /\ nreq = 0
    /\ nfault = 0
    /\ written = {}
    /\ acked = {}
    /\ direct = NoCall

Next ==
    \/ \E p \in Slots : CreateSession(p)
    \/ \E p \in Slots : GetStatus(p)
    \/ \E p \in Slots : ListSessions(p)
    \/ \E p \in Slots : GetSession(p)
    \/ \E p \in Slots : GetSessionRead(p)
    \/ \E p \in Slots : UpdateSession(p)
    \/ \E p \in Slots : UpdateSessionRead(p)
    \/ \E p \in Slots : UpdateSessionMerge(p)
    \/ \E p \in Slots : KvPut(p)
    \/ \E p \in Slots : CreateMobileHandoff(p)
    \/ \E p \in Slots : ContinueMobileSession(p)
    \/ \E p \in Slots : ContinueProbe(p)
    \/ \E p \in Slots : QuickStart(p)
    \/ \E p \in Slots : QuickStartProbe(p)
    \/ \E p \in Slots : QuickStartSet(p)
    \/ \E p \in Slots : GetMobileStatus(p)
    \/ \E p \in Slots : GetMobileInfo(p)
    \/ Tick

Spec == Init /\ [][Next]_vars

\* Direct calls of the storage methods, the handlers that only read, and the
\* remote store losing keys
NextStorage ==
    \/ \E svc \in Services : StorageSet(svc)
    \/ \E svc \in Services : StorageGet(svc)
    \/ KvEvict
    \/ \E p \in Slots : GetSession(p)
    \/ \E p \in Slots : GetSessionRead(p)
    \/ \E p \in Slots : ContinueMobileSession(p)
    \/ \E p \in Slots : ContinueProbe(p)

SpecStorage == Init /\ [][NextStorage]_vars

\* the steps a request in slot p takes after its first: an awaited get or put
\* settles and the handler runs on to its next await or to its return
Settle(p) ==
    \/ GetSessionRead(p) \/ UpdateSessionRead(p) \/ UpdateSessionMerge(p)
    \/ ContinueProbe(p) \/ QuickStartProbe(p) \/ QuickStartSet(p) \/ KvPut(p)

\* how many awaits a request at position t.pc has at most before it returns
AwaitsLeft(t) ==
    IF t.pc = "idle" THEN 0
    ELSE IF t.pc \in {"kvPut", "getSession"} THEN 1
    ELSE IF t.pc \in {"updateMerge", "quickStartSet"} THEN 2
    ELSE IF t.pc = "updateSession" THEN 3
    ELSE IF t.pc = "quickStartGet" THEN 5 - t.probe
    ELSE 4 - t.probe                                        \* "continue"

----------------------------------------------------------------------------
(* extractKeyPoints called on its own *)

ContextFields == {"task", "progress", "nextSteps", "note"}
\* what createMobileHandoff can find in body.mobileContext: nothing, null, a
\* string, or an object with some of the fields, empty or not
Undefined == [kind |-> "undefined", obj |-> NoObj]
Contexts ==
    {Undefined, NullBody, [kind |-> "string", obj |-> NoObj]}
        \cup {Obj(o) : o \in UNION {[fs -> {"", "X"}] : fs \in SUBSET ContextFields}}

List(seq) == [kind |-> "list", list |-> seq]

\* this.extractKeyPoints(context)
ExtractKeyPointsCall ==
    /\ nreq < MaxReqs
    /\ \E context \in Contexts :
        direct' = [NoCall EXCEPT
                     !.n = nreq + 1, !.call = "extractKeyPoints",
                     !.svc = "mobile", !.value = context,
                     !.result = List(ExtractKeyPoints(IsObject(context),
                                                      context.obj))]
    /\ nreq' = nreq + 1
    /\ UNCHANGED <<kvBound, kv, memoryStore, now, task, last, nfault, written,
                   acked>>

NextKeyPoints == ExtractKeyPointsCall
SpecKeyPoints == Init /\ [][NextKeyPoints]_vars

----------------------------------------------------------------------------
(* Claims *)

\* the request the step just taken answered was handled without a storage failure
\* or an unreadable body: no handler answers 500 otherwise
Answered200or404 == last.pc = "done" /\ last.resp.status # 500

\* C1: POST /session/handoff is dispatched to handoff creation: for every JSON
\* object body it is answered with success and a newly generated handoffId, and a
\* handoff record with status "pending" is stored under handoff:<handoffId>,
\* whatever sessions exist.
C1_HandoffIsDispatched ==
    (/\ Answered200or404
     /\ last.svc = "session" /\ last.method = "POST" /\ last.p1 = "handoff"
     /\ IsObject(last.body))
    => /\ last.resp.status = 200
       /\ "handoffId" \in DOMAIN last.resp.body
       /\ Key("handoff", last.resp.body.handoffId) \in DOMAIN Store("session")
       /\ Parse(Store("session")[Key("handoff", last.resp.body.handoffId)]).status
              = "pending"

\* C2: after POST /session/create, a POST /session/handoff carrying the returned
\* sessionId is answered with a handoffId and a mobileUrl ending in
\* /mobile/continue/<handoffId>; and GET /mobile/continue/<id> for the id of a
\* handoff the session service stored is answered 200 with session.status
\* "pending".
C2_HandoffContinuity ==
    /\ (/\ Answered200or404
        /\ last.svc = "session" /\ last.method = "POST" /\ last.p1 = "handoff"
        /\ last.body \in HandoffRequests
        /\ Key("session", last.body.obj.sessionId) \in DOMAIN Store("session"))
       => /\ last.resp.status = 200
          /\ "handoffId" \in DOMAIN last.resp.body
          /\ "mobileUrl" \in DOMAIN last.resp.body
          /\ last.resp.body.mobileUrl
                 = GenerateMobileUrl(last.resp.body.handoffId)
    /\ (/\ Answered200or404
        /\ last.op = "continueMobileSession"
        /\ Key("handoff", last.p2) \in DOMAIN Store("session"))
       => /\ last.resp.status = 200
          /\ last.resp.body.session.status = "pending"

\* the step just taken was a direct call of get / of set
CalledGet == direct'.n # direct.n /\ direct'.call = "get"
CalledSet == direct'.n # direct.n /\ direct'.call = "set"

\* C3: with a remote store configured, get(key) returns exactly what the remote
\* store returns and never consults memoryStore: a remote miss gives null whatever
\* memoryStore holds, and a remote failure propagates (GET /session/{id} answers
\* 500, 404 on a miss, and the remote record otherwise).
C3_GetIsRemoteOnly ==
    [][kvBound =>
        /\ CalledGet =>
              direct'.result = IF nfault' # nfault THEN Thrown
                               ELSE KvGet(direct'.key)
        /\ (last'.pc = "done" /\ last'.op = "getSession") =>
              last'.resp =
                  IF nfault' # nfault THEN SessionError("KVError")
                  ELSE IF ~Truthy(KvGet(Key("session", last'.p1)))
                  THEN SessionNotFound(last'.p1)
                  ELSE SessionResponse(Parse(KvGet(Key("session", last'.p1))))]_vars

\* C3 witness: GET /session/{id} answered 404 from the remote miss while the
\* session service's memoryStore holds a record under that key
C3_Witness ==
    /\ kvBound
    /\ last.pc = "done" /\ last.op = "getSession" /\ last.resp.status = 404
    /\ Key("session", last.p1) \in DOMAIN memoryStore["session"]
    /\ Truthy(memoryStore["session"][Key("session", last.p1)])
    /\ Key("session", last.p1) \notin DOMAIN kv

\* C4 as stated: after every put(key, value) memoryStore holds value under key,
\* whatever the remote put did.
C4_MirrorWhateverRemote ==
    direct.call = "set"
    => /\ direct.key \in DOMAIN memoryStore[direct.svc]
       /\ memoryStore[direct.svc][direct.key] = direct.value

\* C4 amended: a put that returns leaves value under key in memoryStore; a put
\* whose remote put throws propagates the error and leaves memoryStore as it was.
C4_MirrorWhenPutReturns ==
    [][CalledSet =>
        IF direct'.result = Done
        THEN /\ direct'.key \in DOMAIN memoryStore'[direct'.svc]
             /\ memoryStore'[direct'.svc][direct'.key] = direct'.value
        ELSE /\ direct'.result = Thrown
             /\ memoryStore' = memoryStore]_vars

\* C4 witness: a put threw and memoryStore does not hold its value
C4_Witness ==
    /\ direct.call = "set" /\ direct.result = Thrown
    /\ direct.key \notin DOMAIN memoryStore[direct.svc]

StoredSession(id) == Parse(Store("session")[Key("session", id)])
LastIs(op, status) == last.pc = "done" /\ last.op = op /\ last.resp.status = status

\* C6: an update answered 200 has replaced the stored record by the merge it
\* computed from its own read, without comparing versions, so that of two
\* concurrent updates of one session both are answered 200 while the record
\* finally stored lacks the fields of the one written first.
C6_LastWriterWins ==
    LastIs("updateSession", 200)
    => /\ Key("session", last.p1) \in DOMAIN Store("session")
       /\ StoredSession(last.p1) = last.resp.body.session

\* C6 witness: an update was just answered 200 and the stored record lacks a
\* field another update of the same record was answered 200 for
C6_Witness ==
    /\ LastIs("updateSession", 200)
    /\ \E a \in acked :
        /\ a[1] = Key("session", last.p1)
        /\ a[2] \notin DOMAIN StoredSession(last.p1)

\* slot p takes the step on which updateSession looks at what its get returned
UpdateReads(p) == task[p].pc = "updateSession" /\ task'[p] # task[p]

\* C7: an update of an id with no record in the session namespace is answered
\* 404 "Session not found" with the id, and leaves both stores as they were (no
\* record is created), provided the remote get does not fail.
C7_UpdateOfMissing ==
    [][\A p \in Slots :
        (UpdateReads(p) /\ nfault' = nfault
            /\ task[p].key \notin DOMAIN Store("session"))
        => /\ last'.pc = "done" /\ last'.op = "updateSession"
           /\ last'.p1 = task[p].p1
           /\ last'.resp.status = 404
           /\ last'.resp.body =
                  [error |-> "Session not found", sessionId |-> task[p].p1]
           /\ task'[p].pc = "idle"
           /\ kv' = kv /\ memoryStore' = memoryStore]_vars

\* C7 witness: an update was answered 404 after records have been written, and
\* no record is stored under its id
C7_Witness ==
    /\ LastIs("updateSession", 404)
    /\ written # {}
    /\ Key("session", last.p1) \notin DOMAIN Store("session")

\* slot p takes the step on which its updateSession is answered 200
UpdateDone(p) ==
    /\ task[p].op = "updateSession" /\ task[p].pc \in {"updateMerge", "kvPut"}
    /\ task'[p].pc = "idle"
    /\ last'.pc = "done" /\ last'.resp.status = 200

\* the backend of service svc as the step leaves it
StoreAfter(svc) == IF kvBound THEN kv' ELSE memoryStore'[svc]

\* new is old with every field of patch written over it, but for lastActivity
ShallowMerge(old, patch, new) ==
    /\ DOMAIN new = DOMAIN old \cup DOMAIN patch \cup {"lastActivity"}
    /\ \A f \in DOMAIN patch \ {"lastActivity"} : new[f] = patch[f]
    /\ \A f \in DOMAIN old \ (DOMAIN patch \cup {"lastActivity"}) : new[f] = old[f]

\* C8 as stated: an update answered 200 stores and returns the shallow merge of
\* the stored record with the patch, with lastActivity strictly greater than in
\* the stored record.
C8_MergeStrictlyLater ==
    [][\A p \in Slots : UpdateDone(p) =>
        LET old == Parse(Store("session")[task[p].key])
            new == last'.resp.body.session
        IN /\ ShallowMerge(old, task[p].body.obj, new)
           /\ Parse(StoreAfter("session")[task[p].key]) = new
           /\ new.lastActivity > old.lastActivity]_vars

\* C8 amended: an update answered 200 stores and returns the shallow merge of
\* the record it read with the patch, with lastActivity not before its value in
\* the record read (equal when both fall in one millisecond).
C8_MergeOfRecordRead ==
    [][\A p \in Slots : UpdateDone(p) =>
        LET old == Parse(task[p].read)
            new == last'.resp.body.session
        IN /\ ShallowMerge(old, task[p].body.obj, new)
           /\ Parse(StoreAfter("session")[task[p].key]) = new
           /\ new.lastActivity >= old.lastActivity
           /\ new.lastActivity <= now]_vars

\* C8 witness: a record created in millisecond 0 was updated in millisecond 0,
\* and holds a field of the patch
C8_Witness ==
    /\ LastIs("updateSession", 200)
    /\ now = 0
    /\ last.resp.body.session.lastActivity = 0
    /\ last.body.obj # <<>>
    /\ \A f \in DOMAIN last.body.obj \ {"lastActivity"} :
           StoredSession(last.p1)[f] = last.body.obj[f]

\* C9: a creation answered 200 has stored and returned a record whose id is the
\* generated session id, with status "active", the platform of the payload or
\* "claude-code" when the payload has none, and createdAt equal to lastActivity
\* (both set by the service, whatever the payload says).
C9_SessionCreation ==
    LastIs("createSession", 200)
    => LET s == last.resp.body.session
           payload == last.body.obj
       IN /\ s.id = last.resp.body.sessionId
          /\ \E t \in 0..MaxTime, r \in Rand : s.id = GenerateSessionId(t, r)
          /\ s.status = "active"
          /\ s.platform = IF "platform" \in DOMAIN payload THEN payload.platform
                          ELSE "claude-code"
          /\ s.createdAt = s.lastActivity
          /\ s.createdAt \in 0..MaxTime
          /\ StoredSession(last.resp.body.sessionId) = s

\* C10: GET /session/{id} and GET /mobile/continue/{id} for an id no record was
\* ever written under, in any namespace, are answered 404 "Session not found"
\* whatever was done with other ids (500 when the remote get itself fails).
C10_NotFoundForUnwritten ==
    \A op \in {"getSession", "continueMobileSession"} :
        LET id == IF op = "getSession" THEN last.p1 ELSE last.p2 IN
        (last.pc = "done" /\ last.op = op /\ KeysOf(id) \cap written = {})
        => \/ /\ last.resp.status = 404
              /\ last.resp.body = [error |-> "Session not found", sessionId |-> id]
           \/ /\ kvBound /\ nfault > 0
              /\ last.resp = ErrorOf(last.svc, "KVError")

\* C10 witness: continue(id) was answered 404 for an id never written, after
\* records have been written under other ids
C10_Witness ==
    /\ LastIs("continueMobileSession", 404)
    /\ KeysOf(last.p2) \cap written = {}
    /\ written # {}

\* slot p takes a step of continueMobileSession on which a get returns
ContinueReads(p) ==
    task[p].pc = "continue" /\ task'[p] # task[p] /\ nfault' = nfault

\* the value the mobile service's backend holds under `${ns}:${id}` (null: none)
Held(ns, id) ==
    IF Key(ns, id) \in DOMAIN Store("mobile") THEN Store("mobile")[Key(ns, id)]
    ELSE NULL
HoldsRecord(ns, id) == Held(ns, id).kind = "json"

\* C11: continue(id) looks in the session namespace, then in the mobile handoff
\* namespace, then in the quick-start namespace, one get after the other: it is
\* answered 200 with the first record a get finds (session before handoff before
\* quick-start), and 404 only after all three gets found nothing.
C11_ProbeOrder ==
    [][\A p \in Slots :
        /\ (task[p].pc = "idle" /\ task'[p].pc = "continue") => task'[p].probe = 1
        /\ ContinueReads(p) =>
            LET k == task[p].probe
                id == task[p].p2
                ns == IF k = 1 THEN "session"
                      ELSE IF k = 2 THEN "mobile-handoff" ELSE "quickstart"
            IN /\ k \in 1..3
               /\ IF HoldsRecord(ns, id)
                  THEN /\ last'.pc = "done" /\ last'.resp.status = 200
                       /\ last'.resp.body.session = Held(ns, id).obj
                  ELSE IF k < 3
                  THEN /\ task'[p].pc = "continue" /\ task'[p].probe = k + 1
                       /\ last'.pc = "idle"
                  ELSE /\ last'.pc = "done" /\ last'.resp.status = 404
                       /\ last'.resp.body =
                              [error |-> "Session not found", sessionId |-> id]]_vars

\* C11 witness: records that differ are held under one id in two of the
\* namespaces, and continue(id) was answered with the one probed first
C11_Witness ==
    /\ last.pc = "done" /\ last.op = "continueMobileSession"
    /\ last.resp.status = 200
    /\ LET order == <<"session", "mobile-handoff", "quickstart">> IN
       \E i \in 1..2 : \E j \in (i + 1)..3 :
           /\ HoldsRecord(order[i], last.p2) /\ HoldsRecord(order[j], last.p2)
           /\ Held(order[i], last.p2) # Held(order[j], last.p2)
           /\ \A h \in 1..(i - 1) : ~HoldsRecord(order[h], last.p2)
           /\ last.resp.body.session = Held(order[i], last.p2).obj

\* the handoff record the mobile service holds under mobile-handoff:<id>
StoredHandoff(id) == Parse(Store("mobile")[Key("mobile-handoff", id)])

\* C12: in the handoff record createMobileHandoff stores, mobileContext.keyPoints
\* and mobileContext.nextActions are the values derived from the supplied
\* context, also when the supplied context has fields of those names; every other
\* field of the supplied context is kept.
C12_DerivedFieldsOverlay ==
    LastIs("createMobileHandoff", 200)
    => LET body == last.body.obj
           has == "mobileContext" \in DOMAIN body
           supplied == IF has THEN body.mobileContext ELSE NoObj
           stored == StoredHandoff(last.resp.body.handoffId).mobileContext
       IN /\ stored.keyPoints = ExtractKeyPoints(has, supplied)
          /\ stored.nextActions = SuggestNextActions(has)
          /\ \A f \in DOMAIN supplied \ {"keyPoints", "nextActions"} :
                 stored[f] = supplied[f]

KeyPointFields == <<"task", "progress", "nextSteps">>
KeyPointLabels == <<"Task: ", "Progress: ", "Next: ">>
CalledKeyPoints == direct.call = "extractKeyPoints"

\* the key points looked for: one for each field in `counted`, in the fixed
\* order task, progress, nextSteps, and nothing else
KeyPointsAre(points, context, counted) ==
    /\ Len(points) = Cardinality({i \in 1..3 : KeyPointFields[i] \in counted})
    /\ Len(points) <= 3
    /\ \A i \in 1..3 : KeyPointFields[i] \in counted =>
           points[Cardinality({j \in 1..i : KeyPointFields[j] \in counted})]
               = KeyPointLabels[i] \o context[KeyPointFields[i]]

\* C13 as stated: keyPoints has one entry for each of task, progress, nextSteps
\* that is present in the context, in that order; no context gives the empty list.
C13_PointsOfFieldsPresent ==
    CalledKeyPoints
    => IF IsObject(direct.value)
       THEN KeyPointsAre(direct.result.list, direct.value.obj,
                         DOMAIN direct.value.obj)
       ELSE direct.result.list = <<>>

\* C13 amended: keyPoints has one entry for each of task, progress, nextSteps
\* that the context holds a non-empty value for, in that order, at most 3 and
\* without padding; a field that is absent or empty gives no entry, and a context
\* that is missing, null or not an object gives the empty list.
C13_PointsOfFieldsFilled ==
    CalledKeyPoints
    => IF IsObject(direct.value)
       THEN KeyPointsAre(direct.result.list, direct.value.obj,
                         {f \in DOMAIN direct.value.obj : direct.value.obj[f] # ""})
       ELSE direct.result.list = <<>>

\* C13 witness: a context with an empty task and a progress gave the one key
\* point of the progress
C13_Witness ==
    /\ CalledKeyPoints /\ IsObject(direct.value)
    /\ "task" \in DOMAIN direct.value.obj /\ direct.value.obj.task = ""
    /\ direct.result.list = <<"Progress: X">>

\* C14: a quick-start answered 200 has stored a QuickStart whose contextData is
\* what it returns: the record found for the hint (session namespace first, then
\* handoff namespace), null when there is no hint or nothing is found; the
\* recommendations are the empty-context list exactly when contextData is null;
\* and a hint that names a handoff createMobileHandoff has stored finds it.
C14_QuickStartResolution ==
    LastIs("quickStart", 200)
    => LET body == last.body.obj
           answer == last.resp.body
           stored == Parse(Store("mobile")[Key("quickstart", answer.quickStartId)])
       IN /\ stored.contextData = answer.contextData
          /\ answer.recommendations =
                 IF answer.contextData = NULL
                 THEN <<"Start a new session", "Import from desktop Claude",
                        "Quick task creation">>
                 ELSE <<"Continue where you left off", "Review recent context",
                        "Quick status update", "Mobile-optimized summary">>
          /\ "sessionHint" \notin DOMAIN body => answer.contextData = NULL
          /\ ("sessionHint" \in DOMAIN body
                 /\ HoldsRecord("mobile-handoff", body.sessionHint))
             => answer.contextData # NULL

\* the keys of handoff and quick-start records
WriteOnceKeys ==
    {Key(ns, i) : ns \in {"handoff", "mobile-handoff", "quickstart"},
                  i \in GeneratedIds}

\* C15: a handoff or quick-start record, once stored, is never changed or removed
\* by a later operation: the value under its key stays what it is (so a handoff
\* stays "pending" and a QuickStart keeps the contextData it was created with).
C15_WriteOnce ==
    [][\A svc \in Services : \A k \in WriteOnceKeys \cap DOMAIN Store(svc) :
        /\ k \in DOMAIN StoreAfter(svc)
        /\ StoreAfter(svc)[k] = Store(svc)[k]]_vars

SessionKeys == {Key("session", i) : i \in GeneratedIds}

\* C16: a stored session is never deleted: every session key the session store
\* holds is still held, with a record, after every step (the set of session keys
\* only grows), and a GET /session/{id} for an id whose creation has completed is
\* answered with the stored record, never 404 (500 when the remote get fails).
C16_SessionsNeverDeleted ==
    [][/\ \A k \in SessionKeys \cap DOMAIN Store("session") :
            /\ k \in DOMAIN StoreAfter("session")
            /\ StoreAfter("session")[k].kind = "json"
       /\ \A k \in SessionKeys \cap written : k \in DOMAIN Store("session")
       /\ (/\ last'.pc = "done" /\ last'.op = "getSession"
           /\ Key("session", last'.p1) \in written)
          => \/ /\ last'.resp.status = 200
                /\ last'.resp.body.session
                       = Store("session")[Key("session", last'.p1)].obj
             \/ /\ nfault' > nfault
                /\ last'.resp.status = 500]_vars

\* C16 witness: a session that was created and then updated has been read
C16_Witness ==
    /\ LastIs("getSession", 200)
    /\ Key("session", last.p1) \in written
    /\ \E a \in acked : a[1] = Key("session", last.p1)

\* the body of an error response of the catch blocks
HasErrorShape(body) ==
    /\ DOMAIN body = {"error", "message", "service"}
    /\ body.error \in {"Session management error", "Mobile bridge error"}
    /\ body.service = "chitty-ultimate-worker"

\* C17: every request is answered and no exception escapes: a request being
\* handled can always take its next step (its awaited get or put settles), has
\* fewer awaits left after each step, and is answered when it leaves its slot; a
\* request whose body is not JSON, and a request whose storage call throws, is
\* answered 500; and every 500 has a body with an error, a message and the
\* service identifier "chitty-ultimate-worker".
C17_EveryRequestAnswered ==
    /\ [](\A p \in Slots :
            task[p].pc # "idle"
            => (ENABLED Settle(p) /\ AwaitsLeft(task[p]) \in 1..4))
    /\ [][/\ \A p \in Slots :
               /\ (task[p].pc # "idle" /\ task'[p] # task[p])
                  => AwaitsLeft(task'[p]) < AwaitsLeft(task[p])
               /\ (task[p].pc # "idle" /\ task'[p].pc = "idle")
                  => (last'.pc = "done" /\ last'.resp.status \in {200, 404, 500})
          /\ (nfault' > nfault)
             => (last'.pc = "done" /\ last'.resp.status = 500)
          /\ (last'.pc = "done" /\ last'.body = Malformed)
             => last'.resp.status = 500
          /\ (last'.pc = "done" /\ last'.resp.status = 500)
             => HasErrorShape(last'.resp.body)]_vars

\* C17 witness: a request whose storage call threw was answered 500
C17_Witness ==
    /\ last.pc = "done" /\ last.resp.status = 500
    /\ nfault > 0 /\ last.resp.body.message = "KVError"

\* C18: every response with an error status (404 as well as 500) has a body that
\* carries the service identifier.
C18_ErrorsCarryService ==
    (last.pc = "done" /\ last.resp.status >= 400)
    => /\ "service" \in DOMAIN last.resp.body
       /\ last.resp.body.service = "chitty-ultimate-worker"

\* C19: POST /session/sync with a JSON object body is answered with success and
\* the message "Session sync initiated", echoing sessionId and syncTarget
\* ("github" when the body has none), never with 404, and changes no stored key.
C19_SyncAcknowledged ==
    [][(/\ last'.pc = "done" /\ last'.resp.status # 500
        /\ last'.svc = "session" /\ last'.method = "POST" /\ last'.p1 = "sync"
        /\ IsObject(last'.body))
       => /\ last'.resp.status = 200
          /\ "message" \in DOMAIN last'.resp.body
          /\ last'.resp.body.message = "Session sync initiated"
          /\ last'.resp.body.syncTarget =
                 (IF "syncTarget" \in DOMAIN last'.body.obj
                  THEN last'.body.obj.syncTarget ELSE "github")
          /\ kv' = kv /\ memoryStore' = memoryStore]_vars

\* the rows of the route table: method and path of a request that is routed to
\* an operation of its own
MatchesRow(svc, method, p1, p2) ==
    IF svc = "session"
    THEN \/ method = "POST" /\ p1 # ""       \* create, sync, handoff, {id}
         \/ method = "GET"                   \* status, {id}, the list
    ELSE \/ method = "POST" /\ p1 \in {"quick-start", "handoff"}
         \/ method = "GET" /\ p1 = "continue" /\ p2 # ""
         \/ method = "GET" /\ p1 \in {"status", ""}

\* C20: a request whose method and path match no row of the route table is
\* answered with the default of its domain (the empty session list, the mobile
\* info payload) with status 200, never 500, and changes no stored key.
C20_UnmatchedFallThrough ==
    [][(/\ last'.pc = "done"
        /\ ~MatchesRow(last'.svc, last'.method, last'.p1, last'.p2))
       => /\ last'.resp.status = 200
          /\ IF last'.svc = "session"
             THEN /\ last'.resp.body.success = TRUE
                  /\ last'.resp.body.sessions = <<>>
             ELSE /\ last'.resp.body.service = "ChittyChat Mobile Bridge"
                  /\ last'.resp.body.message
                         = "Cross-platform AI session continuity for mobile"
          /\ kv' = kv /\ memoryStore' = memoryStore]_vars

\* C20 witness: DELETE /session/{id} for a stored session was answered with the
\* empty list, and the session is still stored
C20_Witness ==
    /\ last.pc = "done" /\ last.svc = "session" /\ last.method = "DELETE"
    /\ Key("session", last.p1) \in DOMAIN Store("session")
    /\ last.resp.status = 200 /\ last.resp.body.sessions = <<>>

\* the key a creation answered 200 has written its record under
CreatedKey(t) ==
    IF t.op = "createSession" THEN Key("session", t.resp.body.sessionId)
    ELSE IF t.op = "createMobileHandoff"
    THEN Key("mobile-handoff", t.resp.body.handoffId)
    ELSE Key("quickstart", t.resp.body.quickStartId)

\* C21: identifiers generated in one process differ, so that a create (session,
\* handoff or quick-start) never writes to a key that already holds a record.
C21_CreateWritesFreshKey ==
    [][(/\ last'.pc = "done" /\ last'.resp.status = 200
        /\ last'.op \in {"createSession", "createMobileHandoff", "quickStart"})
       => CreatedKey(last') \notin DOMAIN Store(last'.svc)]_vars

\* the operations that only read: GET /session/{id}, GET /mobile/continue/{id}
ReadOps == {"getSession", "continueMobileSession"}
ReadAnswered(t) == t.pc = "done" /\ t.op \in ReadOps /\ t.resp.status # 500

\* C22: reads are idempotent: every step of GET /session/{id} and of
\* GET /mobile/continue/{id} leaves every stored key as it was; the answer of
\* GET /session/{id} is determined by the record stored under session:<id> alone
\* (no time, no counter); and two reads of one id answered one after the other
\* return identical responses.
C22_ReadsAreIdempotent ==
    [][/\ \A p \in Slots :
            (task'[p] # task[p] /\ (task[p].op \in ReadOps \/ task'[p].op \in ReadOps))
            => (kv' = kv /\ memoryStore' = memoryStore)
       /\ (ReadAnswered(last') /\ last'.op = "getSession")
          => LET k == Key("session", last'.p1) IN
             IF k \in DOMAIN Store("session") /\ Store("session")[k].kind = "json"
             THEN /\ last'.resp.status = 200
                  /\ last'.resp.body = [success |-> TRUE,
                                        session |-> Store("session")[k].obj,
                                        service |-> "chitty-ultimate-worker"]
             ELSE /\ last'.resp.status = 404
                  /\ last'.resp.body = [error |-> "Session not found",
                                        sessionId |-> last'.p1]
       /\ (/\ ReadAnswered(last) /\ ReadAnswered(last')
           /\ last'.op = last.op /\ last'.p1 = last.p1 /\ last'.p2 = last.p2)
          => last'.resp = last.resp]_vars

\* C22 witness: a read of a stored session was answered 200 while a second read
\* of the same id is waiting for its get
C22_Witness ==
    /\ LastIs("getSession", 200)
    /\ \E p \in Slots : /\ task[p].pc = "getSession"
                        /\ task[p].p1 = last.p1

\* the request just answered asked for a handoff: POST /session/handoff or
\* POST /mobile/handoff with a JSON object body, and no storage call failed
HandoffAsked ==
    /\ last.pc = "done" /\ last.resp.status # 500
    /\ last.method = "POST" /\ last.p1 = "handoff" /\ IsObject(last.body)

\* C23: handoff creation, in the session service and in the mobile bridge, is
\* answered 200 and has stored the handoff record with the sessionId it was
\* given, whether or not a session exists under that id and also when the body
\* has no sessionId; it is never answered NotFound.
C23_SoftReferences ==
    HandoffAsked
    => /\ last.resp.status = 200
       /\ "handoffId" \in DOMAIN last.resp.body
       /\ LET ns == IF last.svc = "session" THEN "handoff" ELSE "mobile-handoff"
              k == Key(ns, last.resp.body.handoffId)
          IN /\ k \in DOMAIN Store(last.svc)
             /\ LET stored == Parse(Store(last.svc)[k]) IN
                IF "sessionId" \in DOMAIN last.body.obj
                THEN stored.sessionId = last.body.obj.sessionId
                ELSE "sessionId" \notin DOMAIN stored

----------------------------------------------------------------------------
(* services/finance.js: createTransaction and verifyTransaction. These handlers
   call env.KV_NAMESPACE directly; in SpecFinance kv stands for that store and
   kvBound for the binding being present. *)

\* `TXN-${Date.now()}-${random}`
GenerateTransactionId(t, r) == "TXN-" \o ToString(t) \o "-" \o r
TransactionIds == {GenerateTransactionId(t, r) : t \in 0..MaxTime, r \in Rand}

\* a JSON string / a JSON number spelled text
Str(text) == [kind |-> "string", text |-> text]
Num(text) == [kind |-> "number", text |-> text]

\* Bodies sent to /finance/transaction/create
TransactionBodies ==
    { Malformed, NullBody, Obj([from |-> "alice", to |-> "bob"]),
      Obj([amount |-> 0, from |-> "alice", to |-> "bob"]),
      Obj([amount |-> 50, from |-> "alice", to |-> "bob"]),
      Obj([amount |-> 20000, from |-> "alice", to |-> "bob", currency |-> "EUR"]) }

\* the transactions a client has reason to verify: the stored ones, and one that
\* is not
VerifyIds ==
    {"TXN-none"} \cup {i \in TransactionIds : Key("transaction", i) \in DOMAIN kv}
VerificationCodes == {Str(""), Str("000000"), Str("123456"), Num("123456")}

\* Bodies sent to /finance/transaction/verify
VerifyBodies ==
    {Malformed, NullBody, Obj([verificationCode |-> Str("123456")])}
        \cup {Obj([transactionId |-> i]) : i \in VerifyIds}
        \cup {Obj([transactionId |-> i, verificationCode |-> c]) :
                i \in VerifyIds, c \in VerificationCodes}

\* calculateTransactionFee(amount), in tenths
CalculateTransactionFee(amount) ==
    IF amount < 100 THEN 10
    ELSE IF amount < 1000 THEN 25
    ELSE IF amount < 10000 THEN 50
    ELSE amount \div 100

\* the transaction createTransaction builds from its payload
NewTransaction(transactionId, payload, t) ==
    [transactionId |-> transactionId,
     amount |-> payload.amount,
     currency |-> IF "currency" \in DOMAIN payload THEN payload.currency ELSE "USD",
     from |-> payload.from,
     to |-> payload.to,
     type |-> IF "type" \in DOMAIN payload THEN payload.type ELSE "TRANSFER",
     status |-> "PENDING",
     createdAt |-> t,
     metadata |-> [tags |-> <<>>, fee |-> CalculateTransactionFee(payload.amount)],
     verification |-> [required |-> payload.amount > 10000, status |-> "PENDING"]]

\* !payload.amount || !payload.from || !payload.to
MissingTransactionFields(payload) ==
    \/ "amount" \notin DOMAIN payload \/ payload.amount = 0
    \/ "from" \notin DOMAIN payload \/ "to" \notin DOMAIN payload

\* !transactionId || !verificationCode
MissingVerifyFields(payload) ==
    \/ "transactionId" \notin DOMAIN payload
    \/ "verificationCode" \notin DOMAIN payload
    \/ payload.verificationCode = Str("")

\* a comparison that converts before it compares (==), taking the number 123456
IsValidLoose(code) == code.text = "123456"

\* verificationCode === "123456"
IsValid(code) == code = Str("123456")

\* the transaction verifyTransaction writes back: status, verification.status
\* and verification.timestamp are assigned
VerifiedTransaction(transaction, t) ==
    [transaction EXCEPT
        !.status = "VERIFIED",
        !.verification = Assign(@, [status |-> "COMPLETED", timestamp |-> t])]

\* the catch block of a finance handler
FinanceError(op, message) ==
    Response(500, [error |-> IF op = "createTransaction"
                              THEN "Failed to create transaction"
                              ELSE "Failed to verify transaction",
                   details |-> message])

\* the handler goes on to await env.KV_NAMESPACE.put(key, value), then returns reply
AwaitPut(p, t, key, value, reply) ==
    /\ task' = [task EXCEPT ![p] = [t EXCEPT !.pc = "put", !.key = key,
                                      !.value = value, !.reply = reply]]
    /\ last' = IdleTask
    /\ UNCHANGED <<kv, memoryStore, written, acked>>

\* /finance/transaction/create: createTransaction up to its put. The optional
\* bindings D1_DATABASE and QUEUE are absent.
CreateTransaction(p) ==
    /\ Free(p)
    /\ \E method \in Methods, body \in TransactionBodies, r \in Rand :
        LET t == NewTask("finance", "createTransaction", method, "transaction",
                         "create", body)
            transactionId == GenerateTransactionId(now, r)
        IN
        IF body = Malformed THEN Return(p, t, FinanceError(t.op, "SyntaxError"))
        ELSE IF body = NullBody THEN Return(p, t, FinanceError(t.op, "TypeError"))
        ELSE IF MissingTransactionFields(body.obj)
        THEN Return(p, t, Response(400,
                 [error |-> "Missing required fields: amount, from, to"]))
        ELSE IF ~kvBound THEN Return(p, t, FinanceError(t.op, "TypeError"))
        ELSE AwaitPut(p, t, Key("transaction", transactionId),
                      Stringify(NewTransaction(transactionId, body.obj, now)),
                      Response(200, [success |-> TRUE,
                                     transactionId |-> transactionId,
                                     status |-> "CREATED",
                                     message |-> "Transaction created successfully",
                                     data |-> NewTransaction(transactionId,
                                                             body.obj, now)]))
    /\ nreq' = nreq + 1
    /\ UNCHANGED <<kvBound, now, nfault, direct>>

\* /finance/transaction/verify: verifyTransaction up to its get
VerifyTransaction(p) ==
    /\ Free(p)
    /\ \E method \in Methods, body \in VerifyBodies :
        LET t == NewTask("finance", "verifyTransaction", method, "transaction",
                         "verify", body)
        IN
        IF body = Malformed THEN Return(p, t, FinanceError(t.op, "SyntaxError"))
        ELSE IF body = NullBody THEN Return(p, t, FinanceError(t.op, "TypeError"))
        ELSE IF MissingVerifyFields(body.obj)
        THEN Return(p, t, Response(400,
                 [error |-> "Missing required fields: transactionId, verificationCode"]))
        ELSE IF ~kvBound THEN Return(p, t, FinanceError(t.op, "TypeError"))
        ELSE Await(p, [t EXCEPT !.key = Key("transaction", body.obj.transactionId)],
                   "verify")
    /\ nreq' = nreq + 1
    /\ UNCHANGED <<kvBound, now, nfault, direct>>

\* verifyTransaction after its get: 404, 401, or on to the put of the verified
\* transaction
VerifyTransactionRead(p) ==
    /\ task[p].pc = "verify"
    /\ \E o \in Outcomes :
        LET t == task[p]
            txData == IF o = "throws" THEN Thrown ELSE KvGet(t.key)
        IN
        /\ nfault' = IF o = "ok" THEN nfault ELSE nfault + 1
        /\ IF txData = Thrown THEN Return(p, t, FinanceError(t.op, "KVError"))
           ELSE IF ~Truthy(txData)
           THEN Return(p, t, Response(404, [error |-> "Transaction not found"]))
           ELSE IF IsValid(t.body.obj.verificationCode)
           THEN AwaitPut(p, [t EXCEPT !.read = txData], t.key,
                         Stringify(VerifiedTransaction(Parse(txData), now)),
                         Response(200, [success |-> TRUE,
                                        transactionId |-> t.body.obj.transactionId,
                                        status |-> "VERIFIED",
                                        message |-> "Transaction verified successfully"]))
           ELSE Return(p, [t EXCEPT !.read = txData],
                       Response(401, [error |-> "Invalid verification code"]))
    /\ UNCHANGED <<kvBound, now, nreq, direct>>

\* the awaited env.KV_NAMESPACE.put of a finance handler completes or throws
TransactionPut(p) ==
    /\ task[p].pc = "put" /\ task[p].svc = "finance"
    /\ \E o \in Outcomes :
        LET t == task[p] IN
        /\ kv' = IF o = "ok" THEN Put(kv, t.key, t.value) ELSE kv
        /\ written' = IF o = "ok" THEN written \cup {t.key} ELSE written
        /\ nfault' = IF o = "ok" THEN nfault ELSE nfault + 1
        /\ task' = [task EXCEPT ![p] = IdleTask]
        /\ last' = Answered(t, IF o = "ok" THEN t.reply
                                ELSE FinanceError(t.op, "KVError"))
    /\ UNCHANGED <<kvBound, memoryStore, now, nreq, acked, direct>>

NextFinance ==
    \/ \E p \in Slots : CreateTransaction(p)
    \/ \E p \in Slots : VerifyTransaction(p)
    \/ \E p \in Slots : VerifyTransactionRead(p)
    \/ \E p \in Slots : TransactionPut(p)
    \/ Tick

SpecFinance == Init /\ [][NextFinance]_vars

\* the status of the transaction stored under key k, in store
StatusOf(store, k) == Parse(store[k]).status

\* slot p takes a step of verifyTransaction on which no store call fails
VerifySteps(p, pc) ==
    /\ task[p].op = "verifyTransaction" /\ task[p].pc = pc
    /\ task'[p] # task[p] /\ nfault' = nfault

\* C24: verifyTransaction of a stored transaction with a wrong code is answered
\* 401 and leaves the store as it was; with the right code it stores the
\* transaction with status "VERIFIED" and verification.status "COMPLETED" and is
\* answered 200; and no step of a verify call takes a stored transaction from
\* VERIFIED to another status.
C24_FinanceVerification ==
    [][\A p \in Slots :
        /\ (VerifySteps(p, "verify") /\ task[p].key \in DOMAIN kv)
           => IF task[p].body.obj.verificationCode = Str("123456")
              THEN /\ task'[p].pc = "put" /\ last'.pc = "idle"
                   /\ task'[p].key = task[p].key
              ELSE /\ last'.pc = "done" /\ last'.resp.status = 401
                   /\ task'[p].pc = "idle"
                   /\ kv' = kv
        /\ VerifySteps(p, "put")
           => /\ last'.pc = "done" /\ last'.resp.status = 200
              /\ last'.resp.body.status = "VERIFIED"
              /\ StatusOf(kv', task[p].key) = "VERIFIED"
              /\ Parse(kv'[task[p].key]).verification.status = "COMPLETED"
              /\ \A k \in DOMAIN kv \ {task[p].key} :
                     k \in DOMAIN kv' /\ kv'[k] = kv[k]
        /\ (/\ task'[p] # task[p]
            /\ (task[p].op = "verifyTransaction" \/ task'[p].op = "verifyTransaction"))
           => \A k \in DOMAIN kv :
                  StatusOf(kv, k) = "VERIFIED"
                  => (k \in DOMAIN kv' /\ StatusOf(kv', k) = "VERIFIED")]_vars

\* C24 witness: a transaction that was verified is still VERIFIED after a verify
\* call with a wrong code was answered 401
C24_Witness ==
    /\ last.pc = "done" /\ last.op = "verifyTransaction" /\ last.resp.status = 401
    /\ Key("transaction", last.body.obj.transactionId) \in DOMAIN kv
    /\ StatusOf(kv, Key("transaction", last.body.obj.transactionId)) = "VERIFIED"

\* C25: every record stored under session:<X> has id X, and the sessionId a
\* creation returns is the id of the record it returns, whatever the creation
\* payload and the update patches hold (an id field included).
C25_IdentityOfStoredSessions ==
    /\ \A i \in GeneratedIds :
           Key("session", i) \in DOMAIN Store("session")
           => StoredSession(i).id = i
    /\ LastIs("createSession", 200)
       => last.resp.body.sessionId = last.resp.body.session.id

\* the session service holds a record under session:<id>
SessionCreated(id) ==
    /\ Key("session", id) \in DOMAIN Store("session")
    /\ Store("session")[Key("session", id)].kind = "json"

\* C26: the session service and the mobile bridge see one storage, with a remote
\* store and without: the first get of GET /mobile/continue/<id>, and the first
\* get of a quick-start whose sessionHint is <id>, find the record the session
\* service holds under session:<id>.
C26_OneViewOfStorage ==
    [][\A p \in Slots :
        /\ (/\ task[p].pc = "continue" /\ task[p].probe = 1
            /\ task'[p] # task[p] /\ nfault' = nfault
            /\ SessionCreated(task[p].p2))
           => /\ last'.pc = "done" /\ last'.resp.status = 200
              /\ last'.resp.body.session = StoredSession(task[p].p2)
        /\ (/\ task[p].pc = "quickStartGet" /\ task[p].probe = 1
            /\ task'[p] # task[p] /\ nfault' = nfault
            /\ SessionCreated(task[p].body.obj.sessionHint))
           => /\ task'[p].pc = "quickStartSet"
              /\ Parse(task'[p].read) = StoredSession(task[p].body.obj.sessionHint)]_vars

\* C27: the lastActivity of the record stored for a session never decreases: an
\* update answered 200 leaves a stored lastActivity that is not before the one
\* stored when its write lands, under any interleaving of concurrent updates.
C27_LastActivityMonotone ==
    [][\A p \in Slots : UpdateDone(p) =>
        Parse(StoreAfter("session")[task[p].key]).lastActivity
            >= Parse(Store("session")[task[p].key]).lastActivity]_vars

\* slot p takes a step of an update
UpdateSteps(p) ==
    /\ task'[p] # task[p]
    /\ (task[p].op = "updateSession" \/ task'[p].op = "updateSession")

\* store `after` holds what `before` holds under every key but k
SameBut(before, after, k) ==
    /\ DOMAIN before \subseteq DOMAIN after
    /\ DOMAIN after \subseteq DOMAIN before \cup {k}
    /\ \A j \in DOMAIN before \ {k} : after[j] = before[j]

\* C28: an update touches only its target: every step of an update of <id>
\* leaves every key but session:<id> as it was, in the remote store and in both
\* local stores (other sessions, handoffs and quick-starts keep their records);
\* and an update that is not answered 200 (NotFound, malformed body, storage
\* error) has changed nothing.
C28_UpdateTouchesOnlyTarget ==
    [][\A p \in Slots : UpdateSteps(p) =>
        LET id == IF task[p].op = "updateSession" THEN task[p].p1 ELSE task'[p].p1
            k == Key("session", id)
        IN /\ SameBut(kv, kv', k)
           /\ SameBut(memoryStore["session"], memoryStore'["session"], k)
           /\ memoryStore'["mobile"] = memoryStore["mobile"]
           /\ ~(last'.pc = "done" /\ last'.resp.status = 200)
              => (kv' = kv /\ memoryStore' = memoryStore)]_vars

\* C28 witness: an update that carries an id of its own was answered 200 while
\* the stores hold a record under another key
C28_Witness ==
    /\ LastIs("updateSession", 200)
    /\ "id" \in DOMAIN last.body.obj
    /\ \E k \in DOMAIN Store("session") \cup DOMAIN Store("mobile") :
           k # Key("session", last.p1)

----------------------------------------------------------------------------
(* services/assets.js: createAsset, transferAsset and createCustody. These
   handlers call env.KV_NAMESPACE directly and do not look at the method; in
   SpecAssets kv stands for that store and kvBound for the binding being
   present. The optional bindings D1_DATABASE and QUEUE are absent. *)

\* `ASSET-${Date.now()}-${random}`, `TRANSFER-${Date.now()}`,
\* `CUSTODY-${Date.now()}-${random}`
GenerateAssetId(t, r) == "ASSET-" \o ToString(t) \o "-" \o r
GenerateTransferId(t) == "TRANSFER-" \o ToString(t)
GenerateCustodyId(t, r) == "CUSTODY-" \o ToString(t) \o "-" \o r

AssetIds == {GenerateAssetId(t, r) : t \in 0..MaxTime, r \in Rand}
\* the assets a client has reason to name: the stored ones, and one that is not
NamedAssets == {"ASSET-none"} \cup {i \in AssetIds : Key("asset", i) \in DOMAIN kv}

\* Bodies sent to /assets/create
AssetBodies ==
    { Malformed, Obj([name |-> "car"]),
      Obj([name |-> "car", type |-> "PHYSICAL", owner |-> "alice"]) }

\* Bodies sent to /assets/transfer
TransferBodies ==
    {Malformed, Obj([from |-> "alice", to |-> "bob"])}
        \cup {Obj([assetId |-> i, from |-> f, to |-> t]) :
                i \in NamedAssets, f \in {"alice", "bob"}, t \in {"bob", "carol"}}

\* Bodies sent to /assets/custody/create: a list of up to two assets
CustodyBodies ==
    {Malformed, Obj([custodian |-> "bank", beneficiary |-> "alice"])}
        \cup {Obj([assetIds |-> ids, custodian |-> "bank", beneficiary |-> "alice"]) :
                ids \in {<<>>} \cup {<<i>> : i \in NamedAssets}
                          \cup {<<i, j>> : i \in NamedAssets, j \in NamedAssets}}

\* the catch block of an assets handler
AssetsError(op, message) ==
    Response(500, [error |-> IF op = "createAsset" THEN "Failed to create asset"
                              ELSE IF op = "transferAsset"
                              THEN "Failed to transfer asset"
                              ELSE "Failed to create custody",
                   details |-> message])

\* the asset createAsset builds from its payload
NewAsset(assetId, payload, t) ==
    [assetId |-> assetId, name |-> payload.name, type |-> payload.type,
     owner |-> payload.owner, status |-> "ACTIVE", createdAt |-> t,
     value |-> [amount |-> IF "value" \in DOMAIN payload THEN payload.value ELSE 0,
                currency |-> "USD", lastValuation |-> t],
     metadata |-> [tags |-> <<>>],
     blockchain |-> [tokenized |-> FALSE, contractAddress |-> NULL,
                     tokenId |-> NULL, network |-> NULL],
     provenance |-> <<[event |-> "CREATED", timestamp |-> t,
                       actor |-> payload.owner,
                       details |-> "Asset registered in ChittyOS"]>>]

\* the transfer record transferAsset builds
NewTransfer(transferId, payload, asset, t) ==
    [transferId |-> transferId, assetId |-> payload.assetId,
     from |-> payload.from, to |-> payload.to,
     type |-> IF "transferType" \in DOMAIN payload THEN payload.transferType
              ELSE "DIRECT",
     timestamp |-> t, status |-> "PENDING",
     metadata |-> [previousOwner |-> payload.from, newOwner |-> payload.to,
                   value |-> asset.value.amount]]

\* asset.owner = to; asset.provenance.push({...})
Transferred(asset, transferId, payload, t) ==
    [asset EXCEPT
        !.owner = payload.to,
        !.provenance = Append(@, [event |-> "TRANSFERRED", timestamp |-> t,
                                  actor |-> payload.from,
                                  details |-> "Transferred from " \o payload.from
                                                  \o " to " \o payload.to,
                                  transferId |-> transferId])]

\* the custody record createCustody builds
NewCustody(custodyId, payload, t) ==
    [custodyId |-> custodyId, assetIds |-> payload.assetIds,
     custodian |-> payload.custodian, beneficiary |-> payload.beneficiary,
     type |-> IF "type" \in DOMAIN payload THEN payload.type ELSE "STANDARD",
     status |-> "ACTIVE", createdAt |-> t,
     terms |-> [releaseConditions |-> <<>>, fees |-> NoObj],
     metadata |-> [legalDocuments |-> <<>>]]

\* asset.custody = { inCustody: true, custodyId, custodian }
InCustody(asset, custodyId, custodian) ==
    Assign(asset, [custody |-> [inCustody |-> TRUE, custodyId |-> custodyId,
                                custodian |-> custodian]])

\* await env.KV_NAMESPACE.get(key)
AssetsGet(key, outcome) == IF outcome = "throws" THEN Thrown ELSE KvGet(key)

\* an awaited env.KV_NAMESPACE.put(key, value) of slot p returns or throws
AssetsPut(p, key, value, outcome) ==
    /\ kv' = IF outcome = "ok" THEN Put(kv, key, value) ELSE kv
    /\ written' = IF outcome = "ok" THEN written \cup {key} ELSE written
    /\ nfault' = IF outcome = "ok" THEN nfault ELSE nfault + 1
    /\ UNCHANGED <<kvBound, memoryStore, now, nreq, acked, direct>>

\* the handler of slot p returns resp / goes on to its next await
AssetsReturn(p, t, resp) ==
    /\ task' = [task EXCEPT ![p] = IdleTask]
    /\ last' = Answered(t, resp)
AssetsAwait(p, t, pc) ==
    /\ task' = [task EXCEPT ![p] = [t EXCEPT !.pc = pc]]
    /\ last' = IdleTask

\* /assets/create: createAsset up to its put
CreateAsset(p) ==
    /\ Free(p)
    /\ \E body \in AssetBodies, r \in Rand :
        LET t == NewTask("assets", "createAsset", "POST", "create", "", body)
            assetId == GenerateAssetId(now, r)
            asset == NewAsset(assetId, body.obj, now)
        IN
        IF body = Malformed THEN AssetsReturn(p, t, AssetsError(t.op, "SyntaxError"))
        ELSE IF {"name", "type", "owner"} \ DOMAIN body.obj # {}
        THEN AssetsReturn(p, t, Response(400,
                 [error |-> "Missing required fields: name, type, owner"]))
        ELSE IF ~kvBound THEN AssetsReturn(p, t, AssetsError(t.op, "TypeError"))
        ELSE AssetsAwait(p, [t EXCEPT !.key = Key("asset", assetId),
                                      !.value = Stringify(asset),
                                      !.reply = Response(200,
                                          [success |-> TRUE, assetId |-> assetId,
                                           asset |-> asset])],
                         "finalPut")
    /\ nreq' = nreq + 1
    /\ UNCHANGED <<kvBound, kv, memoryStore, now, nfault, written, acked, direct>>

\* the last put of a handler returns, and the handler answers
AssetsFinalPut(p) ==
    /\ task[p].pc = "finalPut"
    /\ \E o \in Outcomes :
        LET t == task[p] IN
        /\ AssetsPut(p, t.key, t.value, o)
        /\ AssetsReturn(p, t, IF o = "ok" THEN t.reply
                               ELSE AssetsError(t.op, "KVError"))

\* /assets/transfer: transferAsset up to its get
TransferAsset(p) ==
    /\ Free(p)
    /\ \E body \in TransferBodies :
        LET t == NewTask("assets", "transferAsset", "POST", "transfer", "", body) IN
        IF body = Malformed THEN AssetsReturn(p, t, AssetsError(t.op, "SyntaxError"))
        ELSE IF {"assetId", "from", "to"} \ DOMAIN body.obj # {}
        THEN AssetsReturn(p, t, Response(400,
                 [error |-> "Missing required fields: assetId, from, to"]))
        ELSE IF ~kvBound THEN AssetsReturn(p, t, AssetsError(t.op, "TypeError"))
        ELSE AssetsAwait(p, [t EXCEPT !.key = Key("asset", body.obj.assetId)],
                         "transferGet")
    /\ nreq' = nreq + 1
    /\ UNCHANGED <<kvBound, kv, memoryStore, now, nfault, written, acked, direct>>

\* transferAsset after its get: 404, 403 when from is not the owner read, or the
\* transfer record and the asset with its new owner are built
TransferAssetRead(p) ==
    /\ task[p].pc = "transferGet"
    /\ \E o \in Outcomes :
        LET t == task[p]
            assetData == AssetsGet(t.key, o)
            asset == Parse(assetData)
            transferId == GenerateTransferId(now)
            transfer == NewTransfer(transferId, t.body.obj, asset, now)
        IN
        /\ nfault' = IF o = "ok" THEN nfault ELSE nfault + 1
        /\ IF assetData = Thrown
           THEN AssetsReturn(p, t, AssetsError(t.op, "KVError"))
           ELSE IF ~Truthy(assetData)
           THEN AssetsReturn(p, t, Response(404, [error |-> "Asset not found"]))
           ELSE IF asset.owner # t.body.obj.from
           THEN AssetsReturn(p, [t EXCEPT !.read = assetData], Response(403,
                    [error |-> "Unauthorized: Sender does not own the asset"]))
           ELSE AssetsAwait(p, [t EXCEPT
                    !.read = assetData,
                    !.value = Stringify(Transferred(asset, transferId,
                                                    t.body.obj, now)),
                    !.reply = Response(200, [success |-> TRUE,
                                             transferId |-> transferId,
                                             assetId |-> t.body.obj.assetId,
                                             transfer |-> transfer])],
                    "transferSave")
    /\ UNCHANGED <<kvBound, kv, memoryStore, now, nreq, written, acked, direct>>

\* transferAsset: the put of the asset returns; the put of the transfer record
\* is next
TransferAssetSave(p) ==
    /\ task[p].pc = "transferSave"
    /\ \E o \in Outcomes :
        LET t == task[p] IN
        /\ AssetsPut(p, t.key, t.value, o)
        /\ IF o = "ok"
           THEN AssetsAwait(p, [t EXCEPT
                    !.key = Key("transfer", t.reply.body.transferId),
                    !.value = Stringify(t.reply.body.transfer)], "finalPut")
           ELSE AssetsReturn(p, t, AssetsError(t.op, "KVError"))

\* /assets/custody/create: createCustody up to the get of the first asset (to
\* the put of the custody record when the list is empty)
CreateCustody(p) ==
    /\ Free(p)
    /\ \E body \in CustodyBodies, r \in Rand :
        LET t == NewTask("assets", "createCustody", "POST", "custody", "create",
                         body)
            custodyId == GenerateCustodyId(now, r)
            custody == NewCustody(custodyId, body.obj, now)
            ready == [t EXCEPT !.key = Key("custody", custodyId),
                               !.value = Stringify(custody),
                               !.reply = Response(200, [success |-> TRUE,
                                                        custodyId |-> custodyId,
                                                        custody |-> custody])]
        IN
        IF body = Malformed THEN AssetsReturn(p, t, AssetsError(t.op, "SyntaxError"))
        ELSE IF {"assetIds", "custodian", "beneficiary"} \ DOMAIN body.obj # {}
        THEN AssetsReturn(p, t, Response(400,
                 [error |-> "Missing required fields: assetIds, custodian, beneficiary"]))
        ELSE IF body.obj.assetIds = <<>> THEN
            IF ~kvBound THEN AssetsReturn(p, t, AssetsError(t.op, "TypeError"))
            ELSE AssetsAwait(p, ready, "finalPut")
        ELSE IF ~kvBound THEN AssetsReturn(p, t, AssetsError(t.op, "TypeError"))
        ELSE AssetsAwait(p, [ready EXCEPT !.probe = 1], "custodyGet")
    /\ nreq' = nreq + 1
    /\ UNCHANGED <<kvBound, kv, memoryStore, now, nfault, written, acked, direct>>

\* createCustody: the get of the next listed asset returns: 404 when there is
\* none, else the asset is marked and its put is next
CustodyRead(p) ==
    /\ task[p].pc = "custodyGet"
    /\ \E o \in Outcomes :
        LET t == task[p]
            assetId == t.body.obj.assetIds[t.probe]
            assetData == AssetsGet(Key("asset", assetId), o)
        IN
        /\ nfault' = IF o = "ok" THEN nfault ELSE nfault + 1
        /\ IF assetData = Thrown
           THEN AssetsReturn(p, t, AssetsError(t.op, "KVError"))
           ELSE IF ~Truthy(assetData)
           THEN AssetsReturn(p, t, Response(404,
                    [error |-> "Asset " \o assetId \o " not found"]))
           ELSE AssetsAwait(p, [t EXCEPT !.read =
                    Stringify(InCustody(Parse(assetData),
                                        t.reply.body.custodyId,
                                        t.body.obj.custodian))], "custodyMark")
    /\ UNCHANGED <<kvBound, kv, memoryStore, now, nreq, written, acked, direct>>

\* createCustody: the put of the marked asset returns; the next asset of the
\* list, or the put of the custody record, is next
CustodyMark(p) ==
    /\ task[p].pc = "custodyMark"
    /\ \E o \in Outcomes :
        LET t == task[p] IN
        /\ AssetsPut(p, Key("asset", t.body.obj.assetIds[t.probe]), t.read, o)
        /\ IF o # "ok" THEN AssetsReturn(p, t, AssetsError(t.op, "KVError"))
           ELSE IF t.probe < Len(t.body.obj.assetIds)
           THEN AssetsAwait(p, [t EXCEPT !.probe = t.probe + 1, !.read = NULL],
                            "custodyGet")
           ELSE AssetsAwait(p, [t EXCEPT !.read = NULL], "finalPut")

NextAssets ==
    \/ \E p \in Slots : CreateAsset(p)
    \/ \E p \in Slots : TransferAsset(p)
    \/ \E p \in Slots : TransferAssetRead(p)
    \/ \E p \in Slots : TransferAssetSave(p)
    \/ \E p \in Slots : CreateCustody(p)
    \/ \E p \in Slots : CustodyRead(p)
    \/ \E p \in Slots : CustodyMark(p)
    \/ \E p \in Slots : AssetsFinalPut(p)
    \/ Tick

SpecAssets == Init /\ [][NextAssets]_vars

\* the assets the store holds, by key
StoredAssets == {k \in DOMAIN kv : \E i \in AssetIds : k = Key("asset", i)}

\* a createCustody that generated custodyId is still running
CustodyInProgress(custodyId) ==
    \E p \in Slots : /\ task[p].op = "createCustody"
                     /\ task[p].pc \in {"custodyGet", "custodyMark", "finalPut"}
                     /\ task[p].reply.body.custodyId = custodyId

\* C29: custody creation is all-or-nothing: once no createCustody that generated
\* it is running, every custodyId an asset references has its custody record
\* stored; a createCustody answered 404 for a missing asset has left no asset
\* marked.
C29_CustodyAllOrNothing ==
    \A k \in StoredAssets :
        "custody" \in DOMAIN Parse(kv[k])
        => \/ Key("custody", Parse(kv[k]).custody.custodyId) \in DOMAIN kv
           \/ CustodyInProgress(Parse(kv[k]).custody.custodyId)

\* the request just answered is a transfer answered 200
TransferSucceeded(t) ==
    t.pc = "done" /\ t.op = "transferAsset" /\ t.resp.status = 200

\* C30: transfers respect ownership: the put that changes an asset's owner is
\* made for a request whose from is the owner stored at the time of the put; a
\* request whose from is not the owner is answered 403 and changes no record; and
\* two transfers of one asset by one owner to different recipients that are in
\* flight together are not both answered with success.
C30_TransferRespectsOwnership ==
    [][/\ \A p \in Slots :
            /\ (task[p].pc = "transferSave" /\ task'[p] # task[p] /\ kv' # kv)
               => Parse(kv[task[p].key]).owner = task[p].body.obj.from
            /\ (/\ task[p].pc = "transferGet" /\ task'[p] # task[p]
                /\ nfault' = nfault /\ task[p].key \in DOMAIN kv
                /\ Parse(kv[task[p].key]).owner # task[p].body.obj.from)
               => (last'.pc = "done" /\ last'.resp.status = 403 /\ kv' = kv)
       /\ ~(/\ TransferSucceeded(last) /\ TransferSucceeded(last')
            /\ last'.body.obj.assetId = last.body.obj.assetId
            /\ last'.body.obj.from = last.body.obj.from
            /\ last'.body.obj.to # last.body.obj.to)]_vars

====
